---- MODULE Spec2Model ----
(***************************************************************************)
(* Model of the two visualisation pipelines of Automata-Simulator:         *)
(*   Visualize/visualize_dfa.py          load_dfa, main, draw_dfa          *)
(*   Visualize/visualize_syntax_tree.py  load_syntax_tree, main,           *)
(*                                       print_tree, draw_tree,            *)
(*                                       calculate_tree_positions          *)
(*                                                                         *)
(* Strings that the code takes apart (transition symbols, edge labels) are *)
(* sequences of one-character strings, so that str.split and the string    *)
(* comparison of sorted() are computed and not assumed.  Coordinates are   *)
(* in tenths of a unit (x_spacing 1.5 -> 15, y_spacing 1.2 -> 12).         *)
(* An optional value (None or a value) is a set with at most one element.  *)
(***************************************************************************)
EXTENDS Integers, Sequences, FiniteSets, TLC

VARIABLES
    pipeline,      \* "dfa" (visualize_dfa.py) or "tree" (visualize_syntax_tree.py)
    file,          \* the input file on disk: [kind, doc]
    pc,            \* position of the run
    exit_status,   \* {} while running, {0} or {1} once the process has ended
    console,       \* messages printed so far (errors, confirmations, tracebacks)
    data,          \* the value returned by the loader: {} or {document}
    table,         \* {} or {the summary and the rows of the table main printed}
    tree_lines,    \* lines printed by print_tree
    G,             \* the networkx DiGraph of draw_dfa: [nodes, accepting, edges]
    edge_labels,   \* dict (from, to) -> label of draw_dfa
    idx,           \* index of the next transition of the aggregation loop
    layout_calls,  \* calls of nx.spring_layout made so far
    pos,           \* {} or {the set of nodes the layout positioned}
    start_marked,  \* nodes drawn with the start-state arrow
    positions,     \* {} or {dict id -> <<x, y>>} computed by draw_tree
    image          \* image files written

vars == <<pipeline, file, pc, exit_status, console, data, table, tree_lines,
          G, edge_labels, idx, layout_calls, pos, start_marked, positions, image>>

----------------------------------------------------------------------------
(* Bounds of the model *)

NumStates == 2
MaxTrans == 2
MaxDepth == 3
MaxRows == 3
MaxSymLen == 2
MaxLabelTrans == 2

----------------------------------------------------------------------------
(* Strings *)

\* code point of a character (Python compares str by code point)
Code(c) ==
    CASE c = " " -> 32
      [] c = "," -> 44
      [] c = "a" -> 97
      [] c = "b" -> 98

RECURSIVE StrLess(_, _)
\* s < t for Python str
StrLess(s, t) ==
    IF t = <<>> THEN FALSE
    ELSE IF s = <<>> THEN TRUE
    ELSE IF Code(Head(s)) # Code(Head(t)) THEN Code(Head(s)) < Code(Head(t))
    ELSE StrLess(Tail(s), Tail(t))

\* the separator ', ' of the merged labels
Separator == <<",", " ">>

\* least index at which ', ' occurs in s, 0 when it does not occur
FindSeparator(s) ==
    LET hits == {k \in 1..(Len(s) - 1) : s[k] = "," /\ s[k + 1] = " "}
    IN  IF hits = {} THEN 0 ELSE CHOOSE k \in hits : \A j \in hits : k <= j

RECURSIVE split(_)
\* s.split(', ')
split(s) ==
    LET k == FindSeparator(s)
    IN  IF k = 0 THEN <<s>>
        ELSE <<SubSeq(s, 1, k - 1)>> \o split(SubSeq(s, k + 2, Len(s)))

\* x in list
Contains(list, x) == \E k \in 1..Len(list) : list[k] = x

\* all strings over alphabet of length 1..n
RECURSIVE StringsOver(_, _)
StringsOver(alphabet, n) ==
    IF n = 0 THEN {}
    ELSE LET shorter == StringsOver(alphabet, n - 1)
         IN  {<<c>> : c \in alphabet} \cup shorter
             \cup {Append(s, c) : s \in shorter, c \in alphabet}

\* all sequences over S of length 0..n
RECURSIVE SeqUpTo(_, _)
SeqUpTo(S, n) ==
    IF n = 0 THEN {<<>>}
    ELSE LET shorter == SeqUpTo(S, n - 1)
         IN  shorter \cup {Append(s, e) : s \in shorter, e \in S}

----------------------------------------------------------------------------
(* Syntax tree: a node is [id, value, left, right], left and right optional *)

x_spacing == 15
y_spacing == 12

HasLeft(node) == node.left # {}
HasRight(node) == node.right # {}
Left(node) == CHOOSE t \in node.left : TRUE
Right(node) == CHOOSE t \in node.right : TRUE

\* value of a node with the given children: operators above, operands at leaves
ValuesFor(l, r) ==
    IF l = {} /\ r = {} THEN {"a", "eps"}
    ELSE IF l # {} /\ r # {} THEN {"."}
    ELSE {"*"}

RECURSIVE TreesAt(_, _)
\* trees of depth 1..d whose root has id `id`; children of n are 2n and 2n+1,
\* which makes the ids of a tree unique
TreesAt(d, id) ==
    IF d = 0 THEN {}
    ELSE LET ls == {{}} \cup {{t} : t \in TreesAt(d - 1, 2 * id)}
             rs == {{}} \cup {{t} : t \in TreesAt(d - 1, 2 * id + 1)}
         IN  UNION {{[id |-> id, value |-> v, left |-> l, right |-> r] :
                         v \in ValuesFor(l, r)} : l \in ls, r \in rs}

RECURSIVE calculate_tree_positions_overlap(_, _, _)
\* faulty variant: the node is placed at the anchor, ignoring the width of its left subtree
calculate_tree_positions_overlap(node, x, y) ==
    LET left == IF HasLeft(node)
                THEN calculate_tree_positions_overlap(Left(node), x, y - y_spacing)
                ELSE <<<<>>, 0>>
        left_width == left[2]
        current_x == x
        right == IF HasRight(node)
                 THEN calculate_tree_positions_overlap(Right(node), current_x + x_spacing,
                                                       y - y_spacing)
                 ELSE <<<<>>, 0>>
        right_width == right[2]
    IN  <<right[1] @@ left[1] @@ (node.id :> <<current_x, y>>),
          left_width + x_spacing + right_width>>

RECURSIVE calculate_tree_positions_anchor(_, _, _)
\* faulty variant: the right subtree is anchored at the anchor of the node, not right of it
calculate_tree_positions_anchor(node, x, y) ==
    LET left == IF HasLeft(node)
                THEN calculate_tree_positions_anchor(Left(node), x, y - y_spacing)
                ELSE <<<<>>, 0>>
        left_width == left[2]
        current_x == x + left_width
        right == IF HasRight(node)
                 THEN calculate_tree_positions_anchor(Right(node), x, y - y_spacing)
                 ELSE <<<<>>, 0>>
        right_width == right[2]
    IN  <<right[1] @@ left[1] @@ (node.id :> <<current_x, y>>),
          left_width + x_spacing + right_width>>

RECURSIVE calculate_tree_positions(_, _, _)
\* <<positions, total_width>> of the subtree at node anchored at (x, y)
calculate_tree_positions(node, x, y) ==
    LET left == IF HasLeft(node)
                THEN calculate_tree_positions(Left(node), x, y - y_spacing)
                ELSE <<<<>>, 0>>
        left_width == left[2]
        current_x == x + left_width
        right == IF HasRight(node)
                 THEN calculate_tree_positions(Right(node), current_x + x_spacing,
                                               y - y_spacing)
                 ELSE <<<<>>, 0>>
        right_width == right[2]
    IN  <<right[1] @@ left[1] @@ (node.id :> <<current_x, y>>),
          left_width + x_spacing + right_width>>

\* the connector and the extension print_tree uses ("+-- " stands for the
\* corner connector of a last branch, "|-- " for the tee of a continued one)
Connector(is_tail) == IF is_tail THEN "+-- " ELSE "|-- "
Extension(is_tail) == IF is_tail THEN "    " ELSE "|   "
\* "eps" stands for the epsilon character
DisplayValue(value) == IF value = "eps" THEN "eps (epsilon)" ELSE value

RECURSIVE print_tree_all_tail(_, _, _)
\* faulty variant: the left child is always printed as the last branch
print_tree_all_tail(node, prefix, is_tail) ==
    LET new_prefix == Append(prefix, Extension(is_tail))
    IN  <<[prefix |-> prefix, connector |-> Connector(is_tail),
           value |-> DisplayValue(node.value)]>>
        \o (IF HasLeft(node)
            THEN print_tree_all_tail(Left(node), new_prefix, TRUE) ELSE <<>>)
        \o (IF HasRight(node)
            THEN print_tree_all_tail(Right(node), new_prefix, TRUE) ELSE <<>>)

RECURSIVE print_tree(_, _, _)
\* the lines print_tree prints, each [prefix, connector, value]; the prefix is
\* the sequence of extensions it is concatenated from
print_tree(node, prefix, is_tail) ==
    LET new_prefix == Append(prefix, Extension(is_tail))
        has_left == HasLeft(node)
        has_right == HasRight(node)
    IN  <<[prefix |-> prefix, connector |-> Connector(is_tail),
           value |-> DisplayValue(node.value)]>>
        \o (IF has_left
            THEN print_tree(Left(node), new_prefix, ~has_right) ELSE <<>>)
        \o (IF has_right
            THEN print_tree(Right(node), new_prefix, TRUE) ELSE <<>>)

----------------------------------------------------------------------------
(* DFA document: [states, start_state, transitions]; a state is            *)
(* [id, accepting], a transition [from, symbol, to]                        *)

\* faulty variant: the key is (from, to, symbol)
KeyLessToFirst(a, b) ==
    \/ a.from < b.from
    \/ a.from = b.from /\ a.to < b.to
    \/ a.from = b.from /\ a.to = b.to /\ StrLess(a.symbol, b.symbol)

\* key of sorted() in main: (t['from'], t['symbol'], t['to']) compared as tuples
KeyLess(a, b) ==
    \/ a.from < b.from
    \/ a.from = b.from /\ StrLess(a.symbol, b.symbol)
    \/ a.from = b.from /\ a.symbol = b.symbol /\ a.to < b.to

\* row inserted behind every row that is not greater (sorted() is stable)
InsertRow(rows, t) ==
    LET later == {k \in 1..Len(rows) : KeyLess(t, rows[k])}
        at == IF later = {} THEN Len(rows) + 1
              ELSE CHOOSE k \in later : \A j \in later : k <= j
    IN  SubSeq(rows, 1, at - 1) \o <<t>> \o SubSeq(rows, at, Len(rows))

RECURSIVE sorted_rows(_)
\* sorted(transitions, key=lambda t: (t['from'], t['symbol'], t['to']))
sorted_rows(transitions) ==
    IF transitions = <<>> THEN <<>>
    ELSE InsertRow(sorted_rows(SubSeq(transitions, 1, Len(transitions) - 1)),
                   transitions[Len(transitions)])

\* networkx DiGraph
EmptyGraph == [nodes |-> <<>>, accepting |-> <<>>, edges |-> <<>>]

has_node(g, n) == Contains(g.nodes, n)

has_edge(g, u, v) == Contains(g.edges, <<u, v>>)

\* G.add_node(id, accepting=...)
add_node(g, n, accepting) ==
    [nodes |-> IF has_node(g, n) THEN g.nodes ELSE Append(g.nodes, n),
     accepting |-> (n :> accepting) @@ g.accepting,
     edges |-> g.edges]

\* G.add_edge(u, v): missing endpoints become nodes without attributes
add_edge(g, u, v) ==
    LET with_u == IF has_node(g, u) THEN g.nodes ELSE Append(g.nodes, u)
        with_v == IF Contains(with_u, v) THEN with_u ELSE Append(with_u, v)
    IN  [nodes |-> with_v,
         accepting |-> g.accepting,
         edges |-> IF has_edge(g, u, v) THEN g.edges ELSE Append(g.edges, <<u, v>>)]

RECURSIVE add_nodes(_, _)
\* for state in states: G.add_node(state['id'], accepting=state['accepting'])
add_nodes(g, states) ==
    IF states = <<>> THEN g
    ELSE add_nodes(add_node(g, Head(states).id, Head(states).accepting), Tail(states))

\* faulty variant: the two directions between a pair of states are one edge
aggregate_undirected(g, labels, trans) ==
    LET from_state == IF trans.from <= trans.to THEN trans.from ELSE trans.to
        to_state == IF trans.from <= trans.to THEN trans.to ELSE trans.from
        symbol == trans.symbol
    IN  IF has_edge(g, from_state, to_state)
        THEN LET current_label == labels[<<from_state, to_state>>]
             IN  [G |-> g,
                  edge_labels |->
                      IF ~Contains(split(current_label), symbol)
                      THEN [labels EXCEPT ![<<from_state, to_state>>] =
                                current_label \o Separator \o symbol]
                      ELSE labels]
        ELSE [G |-> add_edge(g, from_state, to_state),
              edge_labels |-> (<<from_state, to_state>> :> symbol) @@ labels]

\* one iteration of the loop `for trans in transitions` of draw_dfa
aggregate(g, labels, trans) ==
    LET from_state == trans.from
        to_state == trans.to
        symbol == trans.symbol
    IN  IF has_edge(g, from_state, to_state)
        THEN LET current_label == labels[<<from_state, to_state>>]
             IN  [G |-> g,
                  edge_labels |->
                      IF ~Contains(split(current_label), symbol)
                      THEN [labels EXCEPT ![<<from_state, to_state>>] =
                                current_label \o Separator \o symbol]
                      ELSE labels]
        ELSE [G |-> add_edge(g, from_state, to_state),
              edge_labels |-> (<<from_state, to_state>> :> symbol) @@ labels]

----------------------------------------------------------------------------
(* Input files *)

NoDoc == [states |-> <<>>, start_state |-> {}, transitions |-> <<>>, root |-> {}]

StateIds == 0..(NumStates - 1)

\* the lists of k states 0..k-1, k = 0..NumStates, with any accepting flags
StateLists ==
    UNION {[1..k -> BOOLEAN] : k \in 0..NumStates}

StatesOf(flags) == [i \in 1..Len(flags) |-> [id |-> i - 1, accepting |-> flags[i]]]

TransitionsOver(symbols) ==
    {[from |-> f, symbol |-> s, to |-> t] : f \in StateIds, s \in symbols, t \in StateIds}

DfaDoc(states, start_state, transitions) ==
    [states |-> states, start_state |-> start_state, transitions |-> transitions,
     root |-> {}]

\* documents of the whole-pipeline specification: any state list, a start
\* state that is absent, a state id or the id NumStates of no state
DfaDocs ==
    {DfaDoc(StatesOf(flags), start, transitions) :
        flags \in StateLists,
        start \in {{}} \cup {{i} : i \in 0..NumStates},
        transitions \in SeqUpTo(TransitionsOver({<<"a">>}), MaxTrans)}

AllStates == [i \in 1..NumStates |-> [id |-> i - 1, accepting |-> (i = NumStates)]]

\* documents for the transition table: symbols a and b
TableDocs ==
    {DfaDoc(AllStates, {0}, transitions) :
        transitions \in SeqUpTo(TransitionsOver({<<"a">>, <<"b">>}), MaxRows)}

\* documents for the labels: symbols over a, comma and blank
LabelDocs ==
    {DfaDoc(AllStates, {0}, transitions) :
        transitions \in SeqUpTo(TransitionsOver(StringsOver({"a", ",", " "}, MaxSymLen)),
                                MaxLabelTrans)}

TreeDocs ==
    {[NoDoc EXCEPT !.root = r] : r \in {{}} \cup {{t} : t \in TreesAt(MaxDepth, 1)}}

FilesOf(docs) ==
    {[kind |-> "absent", doc |-> NoDoc], [kind |-> "invalid", doc |-> NoDoc]}
    \cup {[kind |-> "document", doc |-> d] : d \in docs}

Doc == CHOOSE d \in data : TRUE

----------------------------------------------------------------------------
(* Operations *)

InitRun ==
    /\ pc = "load"
    /\ exit_status = {}
    /\ console = <<>>
    /\ data = {}
    /\ table = {}
    /\ tree_lines = <<>>
    /\ G = EmptyGraph
    /\ edge_labels = <<>>
    /\ idx = 1
    /\ layout_calls = 0
    /\ pos = {}
    /\ start_marked = {}
    /\ positions = {}
    /\ image = {}

Init ==
    /\ pipeline \in {"dfa", "tree"}
    /\ file \in IF pipeline = "dfa" THEN FilesOf(DfaDocs) ELSE FilesOf(TreeDocs)
    /\ InitRun

InitTable ==
    /\ pipeline = "dfa"
    /\ file \in {[kind |-> "document", doc |-> d] : d \in TableDocs}
    /\ InitRun

InitLabel ==
    /\ pipeline = "dfa"
    /\ file \in {[kind |-> "document", doc |-> d] : d \in LabelDocs}
    /\ InitRun

\* sys.exit(1) after the message, or an uncaught exception and its traceback
Exit(message) ==
    /\ console' = Append(console, message)
    /\ exit_status' = {1}
    /\ pc' = "exited"

\* the loader of either pipeline
Load(filename) ==
    /\ pc = "load"
    /\ IF file.kind = "absent"
       THEN Exit(<<"Error: ", filename, " not found.">>) /\ data' = data
       ELSE IF file.kind = "invalid"
       THEN Exit(<<"Error: Invalid JSON in ", filename>>) /\ data' = data
       ELSE /\ data' = {file.doc}
            /\ pc' = "main"
            /\ UNCHANGED <<console, exit_status>>
    /\ UNCHANGED <<pipeline, file, table, tree_lines, G, edge_labels, idx,
                   layout_calls, pos, start_marked, positions, image>>

\* faulty variant: the loader reports the failure and returns instead of exiting
load_dfa_returns ==
    /\ pipeline = "dfa"
    /\ pc = "load"
    /\ console' = IF file.kind = "absent"
                  THEN Append(console, <<"Error: ", "dfa.json", " not found.">>)
                  ELSE IF file.kind = "invalid"
                  THEN Append(console, <<"Error: Invalid JSON in ", "dfa.json">>)
                  ELSE console
    /\ data' = {file.doc}
    /\ pc' = "main"
    /\ UNCHANGED <<pipeline, file, exit_status, table, tree_lines, G, edge_labels, idx,
                   layout_calls, pos, start_marked, positions, image>>

load_dfa ==
    /\ pipeline = "dfa"
    /\ Load("dfa.json")

load_syntax_tree ==
    /\ pipeline = "tree"
    /\ Load("syntax_tree.json")

\* main of visualize_dfa.py up to the call of draw_dfa: the summary and the table
main_dfa ==
    /\ pipeline = "dfa"
    /\ pc = "main"
    /\ table' = {[total_states |-> Len(Doc.states),
                  start_state |-> Doc.start_state,
                  accepting_states |->
                      LET acc == SelectSeq(Doc.states, LAMBDA s : s.accepting)
                      IN  [k \in 1..Len(acc) |-> acc[k].id],
                  total_transitions |-> Len(Doc.transitions),
                  rows |-> sorted_rows(Doc.transitions)]}
    /\ pc' = "draw"
    /\ UNCHANGED <<pipeline, file, exit_status, console, data, tree_lines, G,
                   edge_labels, idx, layout_calls, pos, start_marked, positions, image>>

\* faulty variant: draw_dfa rejects a start state that is no state
draw_dfa_begin_validating ==
    /\ pipeline = "dfa"
    /\ pc = "draw"
    /\ IF Doc.states = <<>>
          \/ ~\E k \in 1..Len(Doc.states) : {Doc.states[k].id} = Doc.start_state
       THEN /\ console' = Append(console, <<"Error: No states found in DFA.">>)
            /\ exit_status' = {0}
            /\ pc' = "done"
            /\ UNCHANGED <<G, edge_labels, idx>>
       ELSE /\ G' = add_nodes(EmptyGraph, Doc.states)
            /\ edge_labels' = <<>>
            /\ idx' = 1
            /\ pc' = IF Doc.transitions = <<>> THEN "layout" ELSE "aggregate"
            /\ UNCHANGED <<console, exit_status>>
    /\ UNCHANGED <<pipeline, file, data, table, tree_lines, layout_calls, pos,
                   start_marked, positions, image>>

\* faulty variant: draw_dfa without the check of the state list
draw_dfa_begin_unchecked ==
    /\ pipeline = "dfa"
    /\ pc = "draw"
    /\ G' = add_nodes(EmptyGraph, Doc.states)
    /\ edge_labels' = <<>>
    /\ idx' = 1
    /\ pc' = IF Doc.transitions = <<>> THEN "layout" ELSE "aggregate"
    /\ UNCHANGED <<pipeline, file, exit_status, console, data, table, tree_lines,
                   layout_calls, pos, start_marked, positions, image>>

\* draw_dfa from its entry to the aggregation loop
draw_dfa_begin ==
    /\ pipeline = "dfa"
    /\ pc = "draw"
    /\ IF Doc.states = <<>>
       THEN /\ console' = Append(console, <<"Error: No states found in DFA.">>)
            /\ exit_status' = {0}
            /\ pc' = "done"
            /\ UNCHANGED <<G, edge_labels, idx>>
       ELSE /\ G' = add_nodes(EmptyGraph, Doc.states)
            /\ edge_labels' = <<>>
            /\ idx' = 1
            /\ pc' = IF Doc.transitions = <<>> THEN "layout" ELSE "aggregate"
            /\ UNCHANGED <<console, exit_status>>
    /\ UNCHANGED <<pipeline, file, data, table, tree_lines, layout_calls, pos,
                   start_marked, positions, image>>

\* one iteration of the aggregation loop of draw_dfa
draw_dfa_aggregate ==
    /\ pipeline = "dfa"
    /\ pc = "aggregate"
    /\ LET merged == aggregate(G, edge_labels, Doc.transitions[idx])
       IN  /\ G' = merged.G
           /\ edge_labels' = merged.edge_labels
    /\ idx' = idx + 1
    /\ pc' = IF idx = Len(Doc.transitions) THEN "layout" ELSE "aggregate"
    /\ UNCHANGED <<pipeline, file, exit_status, console, data, table, tree_lines,
                   layout_calls, pos, start_marked, positions, image>>

\* what a call of nx.spring_layout can do
LayoutOutcomes == {"returns", "raises"}

\* the layout of draw_dfa: the spring embedding and, when it raises, the
\* default embedding, whose error nothing catches
draw_dfa_layout ==
    /\ pipeline = "dfa"
    /\ pc = "layout"
    /\ \E first \in LayoutOutcomes, second \in LayoutOutcomes :
          IF first = "returns"
          THEN /\ layout_calls' = layout_calls + 1
               /\ second = "returns"
               /\ pos' = {{G.nodes[k] : k \in 1..Len(G.nodes)}}
               /\ pc' = "render"
               /\ UNCHANGED <<console, exit_status>>
          ELSE IF second = "returns"
          THEN /\ layout_calls' = layout_calls + 2
               /\ pos' = {{G.nodes[k] : k \in 1..Len(G.nodes)}}
               /\ pc' = "render"
               /\ UNCHANGED <<console, exit_status>>
          ELSE /\ layout_calls' = layout_calls + 2
               /\ Exit(<<"Traceback">>)
               /\ pos' = pos
    /\ UNCHANGED <<pipeline, file, data, table, tree_lines, G, edge_labels, idx,
                   start_marked, positions, image>>

\* draw_dfa from the figure to the export: the node loop reads the
\* 'accepting' attribute of every node of G
draw_dfa_render ==
    /\ pipeline = "dfa"
    /\ pc = "render"
    /\ IF \E k \in 1..Len(G.nodes) : G.nodes[k] \notin DOMAIN G.accepting
       THEN /\ Exit(<<"Traceback">>)
            /\ UNCHANGED <<start_marked, image>>
       ELSE /\ start_marked' = {G.nodes[k] : k \in 1..Len(G.nodes)} \cap Doc.start_state
            /\ image' = image \cup {"dfa.png"}
            /\ console' = Append(console, <<"DFA visualization saved as 'dfa.png'">>)
            /\ exit_status' = {0}
            /\ pc' = "done"
    /\ UNCHANGED <<pipeline, file, data, table, tree_lines, G, edge_labels, idx,
                   layout_calls, pos, positions>>

\* main of visualize_syntax_tree.py up to the call of draw_tree
main_tree ==
    /\ pipeline = "tree"
    /\ pc = "main"
    /\ tree_lines' = IF Doc.root # {}
                     THEN print_tree(CHOOSE r \in Doc.root : TRUE, <<>>, TRUE)
                     ELSE <<>>
    /\ pc' = "draw"
    /\ UNCHANGED <<pipeline, file, exit_status, console, data, table, G, edge_labels,
                   idx, layout_calls, pos, start_marked, positions, image>>

draw_tree ==
    /\ pipeline = "tree"
    /\ pc = "draw"
    /\ IF Doc.root = {}
       THEN /\ console' = Append(console, <<"Error: No root node found in syntax tree.">>)
            /\ UNCHANGED <<positions, image>>
       ELSE /\ positions' = {calculate_tree_positions(CHOOSE r \in Doc.root : TRUE, 0, 0)[1]}
            /\ image' = image \cup {"syntax_tree.png"}
            /\ console' = Append(console,
                                 <<"Syntax tree visualization saved as 'syntax_tree.png'">>)
    /\ exit_status' = {0}
    /\ pc' = "done"
    /\ UNCHANGED <<pipeline, file, data, table, tree_lines, G, edge_labels, idx,
                   layout_calls, pos, start_marked>>

Next ==
    \/ load_dfa
    \/ main_dfa
    \/ draw_dfa_begin
    \/ draw_dfa_aggregate
    \/ draw_dfa_layout
    \/ draw_dfa_render
    \/ load_syntax_tree
    \/ main_tree
    \/ draw_tree

Spec == Init /\ [][Next]_vars

\* the DFA run up to the end of the aggregation loop
NextModel ==
    \/ load_dfa
    \/ main_dfa
    \/ draw_dfa_begin
    \/ draw_dfa_aggregate

SpecTable == InitTable /\ [][NextModel]_vars

SpecLabel == InitLabel /\ [][NextModel]_vars

----------------------------------------------------------------------------
(* Notions the properties are stated in *)

IsDocument == file.kind = "document"

\* the transitions the aggregation loop has gone through
Processed == SubSeq(Doc.transitions, 1, idx - 1)

\* draw_dfa is in or behind the aggregation loop
Aggregating ==
    /\ pipeline = "dfa"
    /\ data # {}
    /\ pc \in {"aggregate", "layout", "render"} \/ (pc \in {"done", "exited"} /\ layout_calls > 0)

PairOf(t) == <<t.from, t.to>>

RECURSIVE FirstSeen(_, _)
\* the distinct symbols of the transitions of ts on pair, in order of first appearance
FirstSeen(ts, pair) ==
    IF ts = <<>> THEN <<>>
    ELSE LET before == FirstSeen(SubSeq(ts, 1, Len(ts) - 1), pair)
             t == ts[Len(ts)]
         IN  IF PairOf(t) = pair /\ ~Contains(before, t.symbol)
             THEN Append(before, t.symbol) ELSE before

RECURSIVE Join(_)
\* the strings of list joined by ', '
Join(list) ==
    IF Len(list) = 1 THEN list[1]
    ELSE Join(SubSeq(list, 1, Len(list) - 1)) \o Separator \o list[Len(list)]

HasSeparator(s) == \E k \in 1..(Len(s) - 1) : s[k] = "," /\ s[k + 1] = " "

LabelsAreJoins ==
    \A k \in 1..Len(Processed) :
        LET pair == PairOf(Processed[k])
        IN  /\ pair \in DOMAIN edge_labels
            /\ edge_labels[pair] = Join(FirstSeen(Processed, pair))

\* C1: at every point of the aggregation loop of draw_dfa, and so after it, the
\* label of every pair (from, to) that occurred is the ', '-joined list of the
\* distinct symbols seen on that pair, each once, in order of first appearance.
C1_LabelIsJoinOfDistinctSymbols ==
    Aggregating => LabelsAreJoins

\* C1, for documents none of whose symbols contains the separator ', '
C1_SeparatorFreeSymbols ==
    (Aggregating /\ \A k \in 1..Len(Doc.transitions) :
                       ~HasSeparator(Doc.transitions[k].symbol))
        => LabelsAreJoins

NoSharedPair(ts) ==
    \A i \in 1..Len(ts), j \in 1..Len(ts) : i # j => PairOf(ts[i]) # PairOf(ts[j])

\* C2: the number of merged edges (edges of G, keys of edge_labels) is at most
\* the number of raw transitions gone through, and equal to it if and only if
\* no two of them share an ordered pair (from, to).
C2_MergedEdgeCount ==
    Aggregating =>
        /\ Len(G.edges) <= Len(Processed)
        /\ Cardinality(DOMAIN edge_labels) = Len(G.edges)
        /\ (Len(G.edges) = Len(Processed)) <=> NoSharedPair(Processed)

C2_Witness ==
    /\ Aggregating
    /\ pc = "layout"
    /\ Len(Doc.transitions) = 3
    /\ Len(G.edges) = 2
    /\ \E i \in 1..3 : Doc.transitions[i].from # Doc.transitions[i].to

\* s <= t as Python strings, stated on the first position where they differ
SymbolAtMost(s, t) ==
    \/ s = t
    \/ \E k \in 1..Len(t) :
          /\ \A j \in 1..(k - 1) : j <= Len(s) /\ s[j] = t[j]
          /\ k > Len(s) \/ Code(s[k]) < Code(t[k])

\* a is not behind b in the order of (from, symbol, to)
RowAtMost(a, b) ==
    \/ a.from < b.from
    \/ a.from = b.from /\ a.symbol # b.symbol /\ SymbolAtMost(a.symbol, b.symbol)
    \/ a.from = b.from /\ a.symbol = b.symbol /\ a.to <= b.to

Count(seq, e) == Cardinality({k \in 1..Len(seq) : seq[k] = e})

Rows == (CHOOSE r \in table : TRUE).rows

\* C5: the table printed by main has one row for every raw transition,
\* duplicates kept, in ascending order of (from, symbol, to).
C5_TableIsSortedPermutation ==
    (pipeline = "dfa" /\ table # {}) =>
        /\ Len(Rows) = Len(Doc.transitions)
        /\ \A k \in 1..Len(Rows) : Count(Rows, Rows[k]) = Count(Doc.transitions, Rows[k])
        /\ \A i \in 1..Len(Rows), j \in 1..Len(Rows) : i < j => RowAtMost(Rows[i], Rows[j])

C5_Witness ==
    /\ pipeline = "dfa"
    /\ table # {}
    /\ Doc.transitions = <<[from |-> 1, symbol |-> <<"b">>, to |-> 0],
                           [from |-> 0, symbol |-> <<"a">>, to |-> 1]>>
    /\ Rows = <<[from |-> 0, symbol |-> <<"a">>, to |-> 1],
                [from |-> 1, symbol |-> <<"b">>, to |-> 0]>>

----------------------------------------------------------------------------
(* Trees *)

Root == CHOOSE r \in Doc.root : TRUE

RECURSIVE Nodes(_)
\* the nodes reachable from node
Nodes(node) ==
    {node} \cup (IF HasLeft(node) THEN Nodes(Left(node)) ELSE {})
           \cup (IF HasRight(node) THEN Nodes(Right(node)) ELSE {})

RECURSIVE Depth(_, _)
\* depth in the tree at node of the node with the given id
Depth(node, id) ==
    IF node.id = id THEN 0
    ELSE IF HasLeft(node) /\ id \in {n.id : n \in Nodes(Left(node))}
    THEN 1 + Depth(Left(node), id)
    ELSE 1 + Depth(Right(node), id)

Positions == CHOOSE p \in positions : TRUE

\* C3: the keys of the mapping are the ids of the nodes reachable from the
\* root, no two nodes have the same (x, y), and no two nodes of the same depth
\* have the same x.
C3_PositionsUnique ==
    (pipeline = "tree" /\ positions # {}) =>
        LET ids == {n.id : n \in Nodes(Root)}
        IN  /\ DOMAIN Positions = ids
            /\ \A a \in ids, b \in ids :
                  a # b =>
                      /\ Positions[a] # Positions[b]
                      /\ Depth(Root, a) = Depth(Root, b) => Positions[a][1] # Positions[b][1]

C3_Witness ==
    /\ pipeline = "tree"
    /\ positions # {}
    /\ Cardinality(Nodes(Root)) >= 5
    /\ \E n \in Nodes(Root) : HasLeft(n) # HasRight(n)
    /\ \E n \in Nodes(Root) : HasLeft(n) /\ HasRight(n)

\* C4: the left child of a node with two children is strictly left of the right child.
C4_LeftChildLeftOfRight ==
    (pipeline = "tree" /\ positions # {}) =>
        \A n \in Nodes(Root) :
            (HasLeft(n) /\ HasRight(n)) =>
                Positions[Left(n).id][1] < Positions[Right(n).id][1]

C4_Witness ==
    /\ pipeline = "tree"
    /\ positions # {}
    /\ \E n \in Nodes(Root) :
          /\ HasLeft(n) /\ HasRight(n)
          /\ HasRight(Left(n)) /\ HasLeft(Right(n))

RECURSIVE Preorder(_)
\* node, then its left subtree, then its right subtree
Preorder(node) ==
    <<node>> \o (IF HasLeft(node) THEN Preorder(Left(node)) ELSE <<>>)
             \o (IF HasRight(node) THEN Preorder(Right(node)) ELSE <<>>)

\* whether n is to be printed as a last branch: the root, a right child, or
\* a left child whose parent has no right child
IsLastBranch(root, n) ==
    \/ n = root
    \/ \E parent \in Nodes(root) :
          \/ HasRight(parent) /\ Right(parent) = n
          \/ HasLeft(parent) /\ Left(parent) = n /\ ~HasRight(parent)

\* C6: print_tree prints one line per node in preorder; the root and every
\* right child as a last branch, a left child as a continued branch exactly
\* when its parent has a right child too.
C6_PreorderWithBranches ==
    (pipeline = "tree" /\ pc \in {"draw", "done"} /\ Doc.root # {}) =>
        LET order == Preorder(Root)
        IN  /\ Len(tree_lines) = Len(order)
            /\ \A k \in 1..Len(order) :
                  /\ tree_lines[k].value = DisplayValue(order[k].value)
                  /\ tree_lines[k].connector = Connector(IsLastBranch(Root, order[k]))

C6_Witness ==
    /\ pipeline = "tree"
    /\ pc = "done"
    /\ Doc.root # {}
    /\ Root.value = "." /\ Left(Root).value = "a" /\ Right(Root).value = "a"
    /\ tree_lines = <<[prefix |-> <<>>, connector |-> "+-- ", value |-> "."],
                      [prefix |-> <<"    ">>, connector |-> "|-- ", value |-> "a"],
                      [prefix |-> <<"    ">>, connector |-> "+-- ", value |-> "a"]>>

----------------------------------------------------------------------------
(* Errors and degenerate documents *)

StateIdsOf(doc) == {doc.states[k].id : k \in 1..Len(doc.states)}

\* the document names a start state that is none of its states
DanglingStart ==
    /\ pipeline = "dfa"
    /\ IsDocument
    /\ file.doc.start_state # {}
    /\ file.doc.start_state \cap StateIdsOf(file.doc) = {}

\* C7 as stated: such a document is rejected before the layout begins, so the
\* run never enters the layout and never computes one.
C7_RejectedBeforeLayout ==
    DanglingStart =>
        /\ layout_calls = 0
        /\ pos = {}
        /\ pc \notin {"layout", "render", "done"}

\* C7 as amended: nothing validates the start state.  With a state list that
\* is not empty the run goes through the report and the aggregation without an
\* error, every run that gets further has called the layout, and a run that
\* ends normally has exported the image with no state drawn as the start.
C7_StartStateNotValidated ==
    (DanglingStart /\ file.doc.states # <<>>) =>
        /\ pc \in {"main", "draw", "aggregate", "layout"} =>
              exit_status = {} /\ console = <<>>
        /\ pc \in {"render", "done", "exited"} => layout_calls >= 1
        /\ pc = "done" =>
              exit_status = {0} /\ image = {"dfa.png"} /\ start_marked = {}

C7_Witness ==
    /\ DanglingStart
    /\ pc = "done"
    /\ pos # {}
    /\ image = {"dfa.png"}
    /\ Doc.transitions # <<>>

NoRoot == pipeline = "tree" /\ IsDocument /\ file.doc.root = {}
NoStartState == pipeline = "dfa" /\ IsDocument /\ file.doc.start_state = {}
NoStates == pipeline = "dfa" /\ IsDocument /\ file.doc.states = <<>>
NoTransitions == pipeline = "dfa" /\ IsDocument /\ file.doc.transitions = <<>>

NoRootMessage == <<"Error: No root node found in syntax tree.">>
NoStatesMessage == <<"Error: No states found in DFA.">>

IsDiagnostic(message) == message \in {NoRootMessage, NoStatesMessage}

\* C8 as stated: in each of the four degenerate cases the finished run has
\* printed a diagnostic, exported no image and ended normally.
C8_AllDegenerateCasesSkipExport ==
    (pc \in {"done", "exited"} /\ (NoRoot \/ NoStartState \/ NoStates \/ NoTransitions)) =>
        /\ \E k \in 1..Len(console) : IsDiagnostic(console[k])
        /\ image = {}
        /\ exit_status = {0}

\* C8 as amended: a document with no root, or with an empty state list, never
\* crashes the run, exports no image, and the finished run has printed the
\* diagnostic and nothing else and ended with status 0.  A missing start state
\* or an empty transition list, with states present, is no condition of the
\* code: no diagnostic is printed, and the run that ends normally has exported
\* the image.
C8_SoftConditions ==
    /\ (NoRoot \/ NoStates) =>
          /\ pc # "exited"
          /\ exit_status \subseteq {0}
          /\ image = {}
          /\ layout_calls = 0 /\ positions = {}
          /\ pc = "done" =>
                /\ exit_status = {0}
                /\ console = <<IF NoRoot THEN NoRootMessage ELSE NoStatesMessage>>
          /\ pc # "done" => ENABLED Next
    /\ ((NoStartState \/ NoTransitions) /\ ~NoStates) =>
          /\ \A k \in 1..Len(console) : ~IsDiagnostic(console[k])
          /\ pc = "done" => exit_status = {0} /\ image = {"dfa.png"}

C8_Witness ==
    /\ NoStates
    /\ file.doc.transitions # <<>>
    /\ pc = "done"
    /\ console = <<NoStatesMessage>>

LoadFailed == file.kind \in {"absent", "invalid"}

FileName == IF pipeline = "dfa" THEN "dfa.json" ELSE "syntax_tree.json"

\* C9: when the loader finds no file or a file that does not parse, the run
\* prints the one message of that failure and ends with status 1; nothing is
\* returned and no later step (report, model, layout, export) has run.
C9_LoaderFailureIsTerminal ==
    (LoadFailed /\ pc # "load") =>
        /\ pc = "exited"
        /\ exit_status = {1}
        /\ console = <<IF file.kind = "absent"
                       THEN <<"Error: ", FileName, " not found.">>
                       ELSE <<"Error: Invalid JSON in ", FileName>>>>
        /\ data = {}
        /\ table = {} /\ tree_lines = <<>>
        /\ G = EmptyGraph /\ edge_labels = <<>>
        /\ layout_calls = 0 /\ pos = {} /\ positions = {}
        /\ image = {}

C9_Witness ==
    /\ LoadFailed
    /\ file.kind = "invalid"
    /\ pipeline = "tree"
    /\ pc = "exited"
    /\ exit_status = {1}

\* C10: for a document with states, the layout of draw_dfa always yields a
\* position for every state and never ends the run: once it has been entered
\* and left, every state has a position and the run is at the rendering or past it
\* with a layout.
C10_LayoutNeverAborts ==
    (pipeline = "dfa" /\ IsDocument /\ file.doc.states # <<>> /\ layout_calls > 0) =>
        /\ pos # {}
        /\ \A p \in pos : StateIdsOf(file.doc) \subseteq p

====
